---- MODULE Spec2Model ----
(***************************************************************************)
(* Sticker slicer: the segmentation run of App.processImage (flood-fill    *)
(* component scan, size filter, padding and clipping) and the selection    *)
(* bookkeeping over the resulting sticker collection.                      *)
(*                                                                         *)
(* Two specifications share the variables:                                 *)
(*   RunSpec  one run of processImage on an arbitrary small raster (and a  *)
(*            few fixed ones), stepped pixel by pixel;                     *)
(*   Spec     the application: every handler is one action, a run is split *)
(*            only where the code awaits.                                  *)
(***************************************************************************)
EXTENDS Integers, Sequences, FiniteSets, TLC

VARIABLES originalImage, stickers, status, processing,
          threshold, minSize, padding, sortMode, run, lastOp

vars == <<originalImage, stickers, status, processing,
          threshold, minSize, padding, sortMode, run, lastOp>>

(***************************************************************************)
(* Bounds of the enumerated rasters.                                       *)
(***************************************************************************)
MaxW == 3
MaxH == 2

(***************************************************************************)
(* Initial values of the three controls.                                   *)
(***************************************************************************)
DefaultThreshold == 15
DefaultMinSize == 20
DefaultPadding == 2

(***************************************************************************)
(* Rasters.  An image is its width, its height and the alpha channel of    *)
(* getImageData in row-major order (alpha[idx + 1] is data[idx * 4 + 3]).  *)
(***************************************************************************)
NullImage == [null |-> TRUE, id |-> "null", width |-> 0, height |-> 0, alpha |-> <<>>]

MkImage(name, w, h, a) ==
  [null |-> FALSE, id |-> name, width |-> w, height |-> h, alpha |-> a]

AlphaVals == {0, 128}

GenRasters ==
  UNION { { MkImage("gen", w, h, a) : a \in [1..(w * h) -> AlphaVals] } :
          w \in 1..MaxW, h \in 1..MaxH }

\* w x h transparent raster with the given pixels set to alpha a
Plot(name, w, h, pts, a) ==
  MkImage(name, w, h,
          [i \in 1..(w * h) |->
             IF <<(i - 1) % w, (i - 1) \div w>> \in pts THEN a ELSE 0])

Block(x0, y0, n) == { <<x, y>> : x \in x0..(x0 + n - 1), y \in y0..(y0 + n - 1) }

\* 10x10, two opaque 2x2 blocks at (1,1) and (6,6)
TwoBlocks == Plot("twoBlocks", 10, 10, Block(1, 1, 2) \cup Block(6, 6, 2), 255)
\* 5x5, one opaque pixel at (0,0)
OnePixel == Plot("onePixel", 5, 5, {<<0, 0>>}, 255)
\* 3x3 ring around a transparent centre
Ring == Plot("ring", 3, 3, Block(0, 0, 3) \ {<<1, 1>>}, 255)
\* 3x3 checkerboard
Checker == Plot("checker", 3, 3, {<<0, 0>>, <<2, 0>>, <<1, 1>>, <<0, 2>>, <<2, 2>>}, 255)
\* 5x5, one opaque pixel in the middle
Centre == Plot("centre", 5, 5, {<<2, 2>>}, 255)

\* 5x4, a 5x1 bar above a 2x2 block
BarAndBlock ==
  Plot("barAndBlock", 5, 4, { <<x, 0>> : x \in 0..4 } \cup Block(0, 2, 2), 255)

\* 7x2, a single pixel between two 2x2 blocks
Gap == Plot("gap", 7, 2, Block(0, 0, 2) \cup {<<3, 0>>} \cup Block(5, 0, 2), 255)

FixedRasters == {TwoBlocks, OnePixel, Ring, Checker, Centre, BarAndBlock, Gap}

\* 4x3 atlas of the application runs: four components of areas 1, 2, 2, 1;
\* the last one is faint (alpha 100)
Mixed ==
  MkImage("mixed", 4, 3, << 255, 0, 255, 255,
                              0, 0,   0,   0,
                            255, 255, 0, 100 >>)
\* 3x1 atlas: two single pixels whose padded boxes coincide
Twins == MkImage("twins", 3, 1, <<255, 0, 255>>)

\* an image without pixels (width and height 0)
Empty == MkImage("empty", 0, 0, <<>>)

Atlases == {Mixed, Twins, Empty}

(***************************************************************************)
(* Pixel helpers.                                                          *)
(***************************************************************************)
PixelIdx(img, x, y) == y * img.width + x

Alpha(img, idx) == img.alpha[idx + 1]

Opaque(img, idx, thr) == Alpha(img, idx) >= thr

DirsDiag == << <<1, 0>>, <<-1, 0>>, <<0, 1>>, <<0, -1>>, <<1, 1>>, <<-1, -1>> >>

Dirs == << <<1, 0>>, <<-1, 0>>, <<0, 1>>, <<0, -1>> >>

MaxOf(a, b) == IF a >= b THEN a ELSE b

MinOf(a, b) == IF a <= b THEN a ELSE b

(***************************************************************************)
(* The state of one run of processImage: the values its closure captured   *)
(* (img, threshold, minSize, padding), its locals, and history fields      *)
(* (allBounds .. pops) that record what the scan did.                      *)
(***************************************************************************)
IdleRun ==
  [pc |-> "idle", img |-> NullImage, threshold |-> 0, minSize |-> 0, padding |-> 0,
   x |-> 0, y |-> 0, visited |-> <<>>, stack |-> <<>>,
   minX |-> 0, maxX |-> 0, minY |-> 0, maxY |-> 0,
   foundBounds |-> <<>>, items |-> <<>>,
   allBounds |-> <<>>, seeds |-> <<>>, foundComp |-> <<>>, itemComp |-> <<>>,
   member |-> <<>>, marks |-> <<>>, pushes |-> <<>>]

\* processImage, lines 109-114: the closure's captured values
NewRun(img, thr, ms, pad) ==
  [IdleRun EXCEPT !.pc = "delay", !.img = img, !.threshold = thr,
                  !.minSize = ms, !.padding = pad]

\* line 124: CanvasRenderingContext2D.getImageData throws an IndexSizeError
\* when the requested width or height is 0; nothing in processImage catches it
GetImageDataThrows(img) == img.width = 0 \/ img.height = 0

\* the run after the uncaught exception: the promise of processImage is
\* rejected, lines 125-169 are not executed
Thrown(r) == [r EXCEPT !.pc = "failed"]

\* lines 116-127: canvas, image data, zeroed visited mask, empty foundBounds
BeginScan(r) ==
  LET n == r.img.width * r.img.height IN
  [r EXCEPT !.pc = "scan", !.x = 0, !.y = 0,
            !.visited = [i \in 1..n |-> 0],
            !.member = [i \in 1..n |-> {}],
            !.marks = [i \in 1..n |-> 0],
            !.pushes = [i \in 1..n |-> 0]]

\* the two for loops of lines 129-130: next pixel in row-major order
Advance(r) ==
  IF r.x + 1 < r.img.width THEN [r EXCEPT !.x = r.x + 1]
  ELSE IF r.y + 1 < r.img.height THEN [r EXCEPT !.x = 0, !.y = r.y + 1]
  ELSE [r EXCEPT !.pc = "scanned"]

Unvisited(r, idx) == r.visited[idx + 1] = 0

SeedHereAny(r, idx) == Opaque(r.img, idx, r.threshold)

\* line 132
SeedHere(r, idx) == Opaque(r.img, idx, r.threshold) /\ Unvisited(r, idx)

\* findBounds, lines 22-24
StartFill(r) ==
  LET idx == PixelIdx(r.img, r.x, r.y) IN
  [r EXCEPT !.pc = "fill",
            !.minX = r.x, !.maxX = r.x, !.minY = r.y, !.maxY = r.y,
            !.stack = <<<<r.x, r.y>>>>,
            !.visited[idx + 1] = 1,
            !.seeds = Append(@, idx),
            !.marks[idx + 1] = @ + 1,
            !.pushes[idx + 1] = @ + 1]

\* lines 129-133: one iteration of the inner for loop up to the call
ScanPixelF(r) ==
  IF SeedHere(r, PixelIdx(r.img, r.x, r.y)) THEN StartFill(r) ELSE Advance(r)

\* findBounds, lines 34-43: the neighbours k.. of (x, y)
RECURSIVE PushNeighbours(_, _, _, _)
PushNeighbours(r, x, y, k) ==
  IF k > Len(Dirs) THEN r
  ELSE
    LET nx == x + Dirs[k][1]
        ny == y + Dirs[k][2]
        inside == nx >= 0 /\ nx < r.img.width /\ ny >= 0 /\ ny < r.img.height
        nIdx == PixelIdx(r.img, nx, ny)
        r2 == IF inside /\ Unvisited(r, nIdx) /\ Opaque(r.img, nIdx, r.threshold)
              THEN [r EXCEPT !.visited[nIdx + 1] = 1,
                             !.stack = Append(@, <<nx, ny>>),
                             !.marks[nIdx + 1] = @ + 1,
                             !.pushes[nIdx + 1] = @ + 1]
              ELSE r
    IN PushNeighbours(r2, x, y, k + 1)

\* findBounds, lines 28-43: one iteration of the while loop
FillPopF(r) ==
  LET top == r.stack[Len(r.stack)]
      x == top[1]
      y == top[2]
      r1 == [r EXCEPT !.stack = SubSeq(@, 1, Len(@) - 1),
                      !.minX = MinOf(@, x), !.maxX = MaxOf(@, x),
                      !.minY = MinOf(@, y), !.maxY = MaxOf(@, y),
                      !.member[PixelIdx(r.img, x, y) + 1] = @ \cup {Len(r.seeds)}]
  IN PushNeighbours(r1, x, y, 1)

BoundsOfShort(r) ==
  [x |-> r.minX, y |-> r.minY, w |-> r.maxX - r.minX, h |-> r.maxY - r.minY]

\* findBounds, line 45
BoundsOf(r) ==
  [x |-> r.minX, y |-> r.minY, w |-> r.maxX - r.minX + 1, h |-> r.maxY - r.minY + 1]

KeepEither(b, ms) == b.w >= ms \/ b.h >= ms

\* line 134
Keep(b, ms) == b.w >= ms /\ b.h >= ms

\* findBounds returns (line 45); lines 134-136; next loop iteration
FillReturnF(r) ==
  LET b == BoundsOf(r)
      r1 == [r EXCEPT !.allBounds = Append(@, b)]
      r2 == IF Keep(b, r.minSize)
            THEN [r1 EXCEPT !.foundBounds = Append(@, b),
                            !.foundComp = Append(@, Len(r1.allBounds))]
            ELSE r1
  IN Advance([r2 EXCEPT !.pc = "scan"])

ShapeUnclipped(b, pad, width, height) ==
  [x |-> b.x - pad, y |-> b.y - pad, w |-> b.w + pad * 2, h |-> b.h + pad * 2]

\* lines 150-154
Shape(b, pad, width, height) ==
  LET sx == MaxOf(0, b.x - pad)
      sy == MaxOf(0, b.y - pad)
      sw == MinOf(width - sx, b.w + pad * 2)
      sh == MinOf(height - sy, b.h + pad * 2)
  IN [x |-> sx, y |-> sy, w |-> sw, h |-> sh]

CutItemLive(r, k) ==
  [bounds |-> Shape(r.foundBounds[k], padding, r.img.width, r.img.height),
   blob |-> [src |-> r.img.id, n |-> k],
   selected |-> TRUE]

\* lines 149-164: the item cut from foundBounds[k]; the blob is the k-th
\* PNG encoded from the run's image
CutItem(r, k) ==
  [bounds |-> Shape(r.foundBounds[k], r.padding, r.img.width, r.img.height),
   blob |-> [src |-> r.img.id, n |-> k],
   selected |-> TRUE]

PushItemFront(r) ==
  LET k == Len(r.items) + 1 IN
  [r EXCEPT !.items = <<CutItem(r, k)>> \o @,
            !.itemComp = <<r.foundComp[k]>> \o @]

\* line 164
PushItem(r) ==
  LET k == Len(r.items) + 1 IN
  [r EXCEPT !.items = Append(@, CutItem(r, k)),
            !.itemComp = Append(@, r.foundComp[k])]

(***************************************************************************)
(* Status line values (t.loaded, t.searching, t.notFound, t.done).         *)
(***************************************************************************)
StNone == [kind |-> "", a |-> 0, b |-> 0]
StLoaded(w, h) == [kind |-> "loaded", a |-> w, b |-> h]
StSearching == [kind |-> "searching", a |-> 0, b |-> 0]
StNotFound == [kind |-> "notFound", a |-> 0, b |-> 0]
StDone(n) == [kind |-> "done", a |-> n, b |-> 0]

(***************************************************************************)
(* Actions of a run.                                                       *)
(***************************************************************************)
\* history: the handler that ran last and the position it was given
Op(name, arg) == [op |-> name, arg |-> arg]

UIState == <<originalImage, threshold, minSize, padding, sortMode>>

\* processImage up to its first await (lines 108-114); the button that
\* calls it is disabled while !originalImage || processing (line 358)
ProcessImage ==
  /\ ~originalImage.null
  /\ ~processing
  /\ processing' = TRUE
  /\ stickers' = <<>>
  /\ status' = StSearching
  /\ run' = NewRun(originalImage, threshold, minSize, padding)
  /\ lastOp' = Op("processImage", 0)
  /\ UNCHANGED UIState

\* lines 116-127
BeginScanStep ==
  /\ run.pc = "delay"
  /\ IF GetImageDataThrows(run.img)
     THEN run' = Thrown(run) /\ lastOp' = Op("scanFailed", 0)
     ELSE run' = BeginScan(run) /\ lastOp' = Op("beginScan", 0)
  /\ UNCHANGED <<UIState, stickers, status, processing>>

\* lines 129-133
ScanPixel ==
  /\ run.pc = "scan"
  /\ run' = ScanPixelF(run)
  /\ lastOp' = Op("scanPixel", 0)
  /\ UNCHANGED <<UIState, stickers, status, processing>>

\* findBounds, lines 27-44
FillPop ==
  /\ run.pc = "fill"
  /\ run.stack # <<>>
  /\ run' = FillPopF(run)
  /\ lastOp' = Op("fillPop", 0)
  /\ UNCHANGED <<UIState, stickers, status, processing>>

\* findBounds line 45 and lines 134-136
FillReturn ==
  /\ run.pc = "fill"
  /\ run.stack = <<>>
  /\ run' = FillReturnF(run)
  /\ lastOp' = Op("fillReturn", 0)
  /\ UNCHANGED <<UIState, stickers, status, processing>>

\* lines 141-145: nothing found
NotFound ==
  /\ run.pc = "scanned"
  /\ run.foundBounds = <<>>
  /\ status' = StNotFound
  /\ processing' = FALSE
  /\ run' = [run EXCEPT !.pc = "done"]
  /\ lastOp' = Op("notFound", 0)
  /\ UNCHANGED <<UIState, stickers>>

\* lines 148-162: enter the cut loop and await the first blob
BeginCut ==
  /\ run.pc = "scanned"
  /\ run.foundBounds # <<>>
  /\ run' = [run EXCEPT !.pc = "cut"]
  /\ lastOp' = Op("beginCut", 0)
  /\ UNCHANGED <<UIState, stickers, status, processing>>

\* lines 162-164 when another bounds follows: the blob arrives, the item is
\* pushed and the next blob is awaited
CutNext ==
  /\ run.pc = "cut"
  /\ Len(run.items) + 1 < Len(run.foundBounds)
  /\ run' = PushItem(run)
  /\ lastOp' = Op("cutNext", 0)
  /\ UNCHANGED <<UIState, stickers, status, processing>>

\* lines 162-169 for the last bounds: the item is pushed and the run ends
CutLast ==
  /\ run.pc = "cut"
  /\ Len(run.items) + 1 = Len(run.foundBounds)
  /\ LET r == PushItem(run) IN
       /\ run' = [r EXCEPT !.pc = "done"]
       /\ stickers' = r.items
       /\ status' = StDone(Len(r.items))
  /\ processing' = FALSE
  /\ lastOp' = Op("cutLast", 0)
  /\ UNCHANGED UIState

(***************************************************************************)
(* RunSpec: a single run on any small raster under a handful of            *)
(* configurations.                                                         *)
(***************************************************************************)
Cfg(t, m, p) == [threshold |-> t, minSize |-> m, padding |-> p]

\* configurations tried on every enumerated raster
GenConfigs ==
  { Cfg(128, 1, 1), Cfg(128, 2, 1), Cfg(129, 1, 0),
    Cfg(128, 1, -1), Cfg(128, -1, 0) }

\* configurations tried on the fixed rasters
RunConfigs ==
  GenConfigs \cup
  { Cfg(128, 1, 0), Cfg(128, 1, 2), Cfg(128, 3, 0), Cfg(128, 3, 2),
    Cfg(DefaultThreshold, 0, DefaultPadding) }

RunInputs == (GenRasters \X GenConfigs) \cup (FixedRasters \X RunConfigs)

RunInit ==
  /\ \E inp \in RunInputs :
       /\ originalImage = inp[1]
       /\ threshold = inp[2].threshold
       /\ minSize = inp[2].minSize
       /\ padding = inp[2].padding
  /\ stickers = <<>>
  /\ status = StLoaded(originalImage.width, originalImage.height)
  /\ processing = FALSE
  /\ sortMode = "default"
  /\ run = IdleRun
  /\ lastOp = Op("init", 0)

RunNext ==
  \/ run.pc = "idle" /\ ProcessImage
  \/ BeginScanStep
  \/ ScanPixel
  \/ FillPop
  \/ FillReturn
  \/ NotFound
  \/ BeginCut
  \/ CutNext
  \/ CutLast

RunSpec == RunInit /\ [][RunNext]_vars

(***************************************************************************)
(* The application.                                                        *)
(***************************************************************************)
\* lines 129-139 run without interruption: both for loops with every call
\* of findBounds
RECURSIVE ScanLoop(_)
ScanLoop(r) ==
  IF r.pc = "scan" THEN ScanLoop(ScanPixelF(r))
  ELSE IF r.pc = "fill"
       THEN ScanLoop(IF r.stack # <<>> THEN FillPopF(r) ELSE FillReturnF(r))
       ELSE r

\* lines 116-145 or 116-162: from the end of the delay to the return of
\* line 144 or to the first awaited blob
ScanAll ==
  /\ run.pc = "delay"
  /\ IF GetImageDataThrows(run.img)
     THEN /\ run' = Thrown(run)
          /\ lastOp' = Op("scanFailed", 0)
          /\ UNCHANGED <<status, processing>>
     ELSE LET r == ScanLoop(BeginScan(run)) IN
          IF r.foundBounds = <<>>
          THEN /\ status' = StNotFound
               /\ processing' = FALSE
               /\ run' = [r EXCEPT !.pc = "done"]
               /\ lastOp' = Op("notFound", 0)
          ELSE /\ run' = [r EXCEPT !.pc = "cut"]
               /\ lastOp' = Op("beginCut", 0)
               /\ UNCHANGED <<status, processing>>
  /\ UNCHANGED <<UIState, stickers>>

\* handleFile, lines 85-99, at img.onload
HandleFile(img) ==
  /\ originalImage' = img
  /\ stickers' = <<>>
  /\ status' = StLoaded(img.width, img.height)
  /\ lastOp' = Op("handleFile", 0)
  /\ UNCHANGED <<processing, threshold, minSize, padding, sortMode, run>>

\* clearAll, lines 208-213; its button exists while a preview is shown
\* (lines 289-300)
ClearAll ==
  /\ ~originalImage.null
  /\ originalImage' = NullImage
  /\ stickers' = <<>>
  /\ status' = StNone
  /\ lastOp' = Op("clearAll", 0)
  /\ UNCHANGED <<processing, threshold, minSize, padding, sortMode, run>>

ThresholdInputs == {DefaultThreshold, 128}
MinSizeInputs == {DefaultMinSize, 1}
PaddingInputs == {DefaultPadding, 0}

\* line 328
SetThreshold(v) ==
  /\ threshold' = v
  /\ lastOp' = Op("setThreshold", 0)
  /\ UNCHANGED <<originalImage, stickers, status, processing, minSize, padding,
                 sortMode, run>>

\* line 340
SetMinSize(v) ==
  /\ minSize' = v
  /\ lastOp' = Op("setMinSize", 0)
  /\ UNCHANGED <<originalImage, stickers, status, processing, threshold, padding,
                 sortMode, run>>

\* line 349
SetPadding(v) ==
  /\ padding' = v
  /\ lastOp' = Op("setPadding", 0)
  /\ UNCHANGED <<originalImage, stickers, status, processing, threshold, minSize,
                 sortMode, run>>

SortModes == <<"default", "size-desc", "size-asc">>

\* lines 409-413; the toolbar exists while stickers.length > 0 (line 380)
CycleSort ==
  /\ stickers # <<>>
  /\ LET idx == CHOOSE i \in 1..Len(SortModes) : SortModes[i] = sortMode
     IN sortMode' = SortModes[(idx % Len(SortModes)) + 1]
  /\ lastOp' = Op("cycleSort", 0)
  /\ UNCHANGED <<originalImage, stickers, status, processing, threshold, minSize,
                 padding, run>>

Area(s) == s.bounds.w * s.bounds.h

\* the comparators of lines 50-51
Compare(mode, a, b) ==
  IF mode = "size-desc" THEN Area(b) - Area(a) ELSE Area(a) - Area(b)

InsertBeforeEqual(sorted, e, mode) ==
  LET before == { j \in 1..Len(sorted) : Compare(mode, e, sorted[j]) <= 0 }
      at == IF before = {} THEN Len(sorted) + 1
            ELSE CHOOSE j \in before : \A i \in before : j <= i
  IN SubSeq(sorted, 1, at - 1) \o <<e>> \o SubSeq(sorted, at, Len(sorted))

\* Array.prototype.sort is stable: e goes after every element it does not
\* strictly precede
InsertStable(sorted, e, mode) ==
  LET before == { j \in 1..Len(sorted) : Compare(mode, e, sorted[j]) < 0 }
      at == IF before = {} THEN Len(sorted) + 1
            ELSE CHOOSE j \in before : \A i \in before : j <= i
  IN SubSeq(sorted, 1, at - 1) \o <<e>> \o SubSeq(sorted, at, Len(sorted))

RECURSIVE SortFrom(_, _, _)
SortFrom(arr, k, mode) ==
  IF k = 0 THEN <<>> ELSE InsertStable(SortFrom(arr, k - 1, mode), arr[k], mode)

\* sortStickers, lines 48-53
sortStickers(arr, mode) ==
  IF mode = "default" THEN arr ELSE SortFrom(arr, Len(arr), mode)

\* line 205
displayStickers == sortStickers(stickers, sortMode)

\* Array.prototype.indexOf on objects: two items of the collection are the
\* same object exactly when they carry the same blob
IndexOf(arr, item) ==
  CHOOSE i \in 1..Len(arr) :
    /\ arr[i].blob = item.blob
    /\ \A j \in 1..(i - 1) : arr[j].blob # item.blob

GlobalIdxSamePosition(shown, p) == p

\* line 457: the index in the collection of the item shown at position p
GlobalIdx(shown, p) == IndexOf(stickers, shown[p])

\* toggleSelect, lines 173-174, called from the item shown at position p
\* (line 465)
ToggleSelect(p) ==
  /\ p \in 1..Len(displayStickers)
  /\ LET i == GlobalIdx(displayStickers, p) IN
       stickers' = [idx \in 1..Len(stickers) |->
                      IF idx = i
                      THEN [stickers[idx] EXCEPT !.selected = ~stickers[idx].selected]
                      ELSE stickers[idx]]
  /\ lastOp' = Op("toggleSelect", p)
  /\ UNCHANGED <<UIState, status, processing, run>>

\* line 183
selectedCount == Len(SelectSeq(stickers, LAMBDA s : s.selected))

SetAllButFirst(prev, v) ==
  [i \in 1..Len(prev) |-> IF i = 1 THEN prev[i] ELSE [prev[i] EXCEPT !.selected = v]]

\* lines 175-176: prev.map(s => ({ ...s, selected: v }))
SetAll(prev, v) == [i \in 1..Len(prev) |-> [prev[i] EXCEPT !.selected = v]]

\* selectAll, line 175; offered while not every sticker is selected (line 385)
SelectAll ==
  /\ stickers # <<>>
  /\ selectedCount # Len(stickers)
  /\ stickers' = SetAll(stickers, TRUE)
  /\ lastOp' = Op("selectAll", 0)
  /\ UNCHANGED <<UIState, status, processing, run>>

\* deselectAll, line 176; offered while every sticker is selected (line 385)
DeselectAll ==
  /\ stickers # <<>>
  /\ selectedCount = Len(stickers)
  /\ stickers' = SetAll(stickers, FALSE)
  /\ lastOp' = Op("deselectAll", 0)
  /\ UNCHANGED <<UIState, status, processing, run>>

IsSelected(s) == s.selected

IsUnselected(s) == ~s.selected

RemainingSelected(prev) == SelectSeq(prev, IsSelected)

\* line 179
Remaining(prev) == SelectSeq(prev, IsUnselected)

\* deleteSelected, lines 177-182; its button exists while selectedCount > 0
\* (line 392)
DeleteSelected ==
  /\ stickers # <<>>
  /\ selectedCount > 0
  /\ stickers' = Remaining(stickers)
  /\ lastOp' = Op("deleteSelected", 0)
  /\ UNCHANGED <<UIState, status, processing, run>>

Init ==
  /\ originalImage = NullImage
  /\ stickers = <<>>
  /\ status = StNone
  /\ processing = FALSE
  /\ threshold = DefaultThreshold
  /\ minSize = DefaultMinSize
  /\ padding = DefaultPadding
  /\ sortMode = "default"
  /\ run = IdleRun
  /\ lastOp = Op("init", 0)

Next ==
  \/ \E img \in Atlases : HandleFile(img)
  \/ ClearAll
  \/ \E v \in ThresholdInputs : SetThreshold(v)
  \/ \E v \in MinSizeInputs : SetMinSize(v)
  \/ \E v \in PaddingInputs : SetPadding(v)
  \/ CycleSort
  \/ \E p \in 1..Len(stickers) : ToggleSelect(p)
  \/ SelectAll
  \/ DeselectAll
  \/ DeleteSelected
  \/ ProcessImage
  \/ ScanAll
  \/ CutNext
  \/ CutLast

Spec == Init /\ [][Next]_vars

(***************************************************************************)
(* Properties of a run.                                                    *)
(***************************************************************************)
ValidConfig(t, m, p) == t \in 1..255 /\ m >= 0 /\ p >= 0

RunValid == ValidConfig(run.threshold, run.minSize, run.padding)

ScanStarted == run.pc \in {"scan", "fill", "scanned", "cut", "done"}

ScanOver == run.pc \in {"scanned", "cut", "done"}

Pixels == 0..(run.img.width * run.img.height - 1)

PX(idx) == idx % run.img.width

PY(idx) == idx \div run.img.width

OpaquePixels == { i \in Pixels : run.img.alpha[i + 1] >= run.threshold }

\* pixels that contributed to the k-th component of the scan
Members(k) == { i \in Pixels : k \in run.member[i + 1] }

\* the box b grown by pad on every side, intersected with the raster
PaddedClip(b, pad, width, height) ==
  LET left == MaxOf(0, b.x - pad)
      top == MaxOf(0, b.y - pad)
      right == MinOf(width, b.x + b.w + pad)
      bottom == MinOf(height, b.y + b.h + pad)
  IN [x |-> left, y |-> top, w |-> right - left, h |-> bottom - top]

BoundsSeq(items) == [k \in 1..Len(items) |-> items[k].bounds]

\* C1: for padding >= 0 every region a run emits is the raw box of its
\* component grown by `padding` on each side and intersected with
\* [0,width) x [0,height), each side clipped on its own; the single pixel at
\* (0,0) of the 5x5 raster with padding 2 gives {x:0,y:0,w:3,h:3}.
C1_PerSideClip ==
  /\ \A k \in 1..Len(run.items) :
       run.padding >= 0 =>
         run.items[k].bounds =
           PaddedClip(run.foundBounds[k], run.padding, run.img.width, run.img.height)
  /\ (lastOp.op = "cutLast" /\ originalImage = OnePixel /\ padding = 2) =>
       BoundsSeq(stickers) = << [x |-> 0, y |-> 0, w |-> 3, h |-> 3] >>

\* C2: a run whose configuration is invalid (threshold outside 1..255,
\* negative minDimension or negative padding) never scans a pixel and never
\* produces a region, in particular none with w <= 0 or h <= 0.
C2_InvalidConfigRejected ==
  (run.pc # "idle" /\ ~RunValid) =>
    /\ run.pc \notin {"scan", "fill", "scanned", "cut"}
    /\ run.items = <<>>
    /\ stickers = <<>>

InRaster(b, width, height) ==
  /\ b.x >= 0 /\ b.y >= 0 /\ b.w >= 1 /\ b.h >= 1
  /\ b.x + b.w <= width /\ b.y + b.h <= height

\* C3: under a valid configuration every region of a run lies inside the
\* raster: x >= 0, y >= 0, w >= 1, h >= 1, x + w <= width, y + h <= height.
C3_RegionsInsideRaster ==
  RunValid =>
    /\ \A k \in 1..Len(run.items) :
         InRaster(run.items[k].bounds, run.img.width, run.img.height)
    /\ \A k \in 1..Len(stickers) :
         InRaster(stickers[k].bounds, run.img.width, run.img.height)

\* a finished run that has a region whose padding was cut off at the left or
\* top edge and a region that kept room on the right
C3_Witness ==
  /\ lastOp.op = "cutLast" /\ RunValid /\ run.padding > 0
  /\ \E k \in 1..Len(stickers) :
       /\ run.foundBounds[k].x - run.padding < 0
       /\ stickers[k].bounds.x = 0
       /\ stickers[k].bounds.x + stickers[k].bounds.w = run.img.width

Adjacent4(i, j) ==
  \/ PY(i) = PY(j) /\ (PX(i) - PX(j) = 1 \/ PX(j) - PX(i) = 1)
  \/ PX(i) = PX(j) /\ (PY(i) - PY(j) = 1 \/ PY(j) - PY(i) = 1)

\* opaque pixels joined to a pixel of S by an edge-sharing path of opaque pixels
RECURSIVE Reach4(_)
Reach4(S) ==
  LET T == S \cup { j \in OpaquePixels : \E i \in S : Adjacent4(i, j) }
  IN IF T = S THEN S ELSE Reach4(T)

SameComponent(i, j) == run.member[i + 1] \cap run.member[j + 1] # {}

\* C4: when the scan is over, two opaque pixels are in the same component
\* exactly when an edge-sharing path of opaque pixels joins them; pixels that
\* touch only at a corner are in different components.
C4_FourConnected ==
  run.pc = "scanned" =>
    \A i \in OpaquePixels :
      LET R == Reach4({i}) IN
      \A j \in OpaquePixels : SameComponent(i, j) <=> j \in R

Diagonal(i, j) ==
  /\ (PX(i) - PX(j) = 1 \/ PX(j) - PX(i) = 1)
  /\ (PY(i) - PY(j) = 1 \/ PY(j) - PY(i) = 1)

\* a finished scan with two opaque pixels touching at a corner in different
\* components, and a component of several pixels
C4_Witness ==
  /\ run.pc = "scanned"
  /\ \E i, j \in OpaquePixels : Diagonal(i, j) /\ ~SameComponent(i, j)
  /\ \E i, j \in OpaquePixels : i # j /\ SameComponent(i, j)

\* C5: the box findBounds returns for a component is the minimal rectangle
\* of its member pixels: every member is inside and each of the four sides
\* is attained by a member.
C5_TightBounds ==
  \A k \in 1..Len(run.allBounds) :
    LET b == run.allBounds[k]
        M == Members(k)
    IN /\ \A i \in M : /\ b.x <= PX(i) /\ PX(i) <= b.x + b.w - 1
                       /\ b.y <= PY(i) /\ PY(i) <= b.y + b.h - 1
       /\ \E i \in M : PX(i) = b.x
       /\ \E i \in M : PX(i) = b.x + b.w - 1
       /\ \E i \in M : PY(i) = b.y
       /\ \E i \in M : PY(i) = b.y + b.h - 1

\* a returned box of a component that does not fill its box
C5_Witness ==
  \E k \in 1..Len(run.allBounds) :
    /\ run.allBounds[k].w >= 2 /\ run.allBounds[k].h >= 2
    /\ Cardinality(Members(k)) < run.allBounds[k].w * run.allBounds[k].h

\* C6: during a scan a pixel is marked visited at most once, pushed on the
\* stack at most once and counted in at most one component; a pixel below
\* the threshold is never marked and belongs to no component; once the scan
\* is over every pixel at or above the threshold is in exactly one component.
C6_SingleAssignment ==
  ScanStarted =>
    \A i \in Pixels :
      /\ run.marks[i + 1] <= 1
      /\ run.pushes[i + 1] <= 1
      /\ Cardinality(run.member[i + 1]) <= 1
      /\ run.visited[i + 1] = 1 <=> run.marks[i + 1] = 1
      /\ run.img.alpha[i + 1] < run.threshold =>
           /\ run.visited[i + 1] = 0
           /\ run.pushes[i + 1] = 0
           /\ run.member[i + 1] = {}
      /\ (ScanOver /\ run.img.alpha[i + 1] >= run.threshold) =>
           /\ run.visited[i + 1] = 1
           /\ Cardinality(run.member[i + 1]) = 1

\* a finished scan over opaque and transparent pixels that found two
\* components, one of them of several pixels
C6_Witness ==
  /\ run.pc = "scanned"
  /\ Len(run.allBounds) >= 2
  /\ OpaquePixels # Pixels
  /\ \E i, j \in OpaquePixels : i # j /\ SameComponent(i, j)

\* C7: the regions of a run are in discovery order: each region is the
\* shaped box of one component and a region precedes another exactly when its
\* component's seed pixel comes first in row-major order; the two-block
\* 10x10 raster with threshold 128, minDimension 1, padding 0 gives
\* {1,1,2,2} then {6,6,2,2}.
C7_DiscoveryOrder ==
  /\ \A i \in 1..Len(run.items) :
       /\ run.itemComp[i] \in 1..Len(run.allBounds)
       /\ run.items[i].bounds =
            Shape(run.allBounds[run.itemComp[i]], run.padding,
                  run.img.width, run.img.height)
       /\ \A j \in 1..Len(run.items) :
            i < j <=> run.seeds[run.itemComp[i]] < run.seeds[run.itemComp[j]]
  /\ lastOp.op = "cutLast" => stickers = run.items
  /\ (run.pc = "done" /\ originalImage = TwoBlocks
        /\ threshold = 128 /\ minSize = 1 /\ padding = 0) =>
       BoundsSeq(stickers) = << [x |-> 1, y |-> 1, w |-> 2, h |-> 2],
                                [x |-> 6, y |-> 6, w |-> 2, h |-> 2] >>

\* the finished two-block run
C7_Witness ==
  /\ lastOp.op = "cutLast" /\ originalImage = TwoBlocks
  /\ threshold = 128 /\ minSize = 1 /\ padding = 0
  /\ Len(stickers) = 2

Range(f) == { f[k] : k \in DOMAIN f }

\* C8: a component is kept exactly when its raw box has w >= minDimension
\* and h >= minDimension (per dimension, not by area); the kept boxes are
\* the raw ones, so padding rescues nothing: the two-block raster with
\* minDimension 3 ends with no region for every padding.
C8_FilterOnRawBox ==
  /\ \A k \in 1..Len(run.allBounds) :
       k \in Range(run.foundComp) <=>
         (run.allBounds[k].w >= run.minSize /\ run.allBounds[k].h >= run.minSize)
  /\ \A i \in 1..Len(run.foundComp) :
       run.foundBounds[i] = run.allBounds[run.foundComp[i]]
  /\ lastOp.op = "cutLast" => Len(stickers) = Len(run.foundComp)
  /\ lastOp.op = "notFound" => stickers = <<>> /\ run.foundComp = <<>>
  /\ (run.pc = "done" /\ originalImage = TwoBlocks /\ minSize = 3) =>
       stickers = <<>> /\ status = StNotFound

\* a finished run that kept a component and dropped another one whose area
\* is at least minDimension squared and whose padded box is large enough
C8_Witness ==
  /\ lastOp.op = "cutLast" /\ run.minSize >= 2 /\ run.padding >= 1
  /\ \E k \in 1..Len(run.allBounds) :
       /\ k \notin Range(run.foundComp)
       /\ run.allBounds[k].w * run.allBounds[k].h >= run.minSize * run.minSize
       /\ run.allBounds[k].h + 2 * run.padding >= run.minSize

(***************************************************************************)
(* Properties of the selection operations.                                 *)
(***************************************************************************)
\* C9: in every sort mode, toggling the region shown at a position of the
\* displayed ordering flips `selected` on that region of the collection and
\* changes nothing else: the other flags, every geometry, the order and the
\* length of the collection stay as they were.
C9_ToggleFrame ==
  [][lastOp'.op = "toggleSelect" =>
       LET shown == displayStickers[lastOp'.arg] IN
       /\ Len(stickers') = Len(stickers)
       /\ \A k \in 1..Len(stickers) :
            /\ stickers'[k].bounds = stickers[k].bounds
            /\ stickers'[k].blob = stickers[k].blob
            /\ stickers'[k].selected =
                 IF stickers[k].blob = shown.blob
                 THEN ~stickers[k].selected ELSE stickers[k].selected
       /\ Cardinality({ k \in 1..Len(stickers) :
                          stickers'[k].selected # stickers[k].selected }) = 1
  ]_vars

\* under size-desc the first item shown, the second of the collection, has
\* just been toggled off while the first of the collection is still selected
C9_Witness ==
  /\ lastOp = Op("toggleSelect", 1)
  /\ sortMode = "size-desc"
  /\ Len(stickers) = 4
  /\ Area(stickers[1]) < Area(stickers[2])
  /\ stickers[1].selected /\ ~stickers[2].selected

\* number of unselected items among the first k
UnselectedUpTo(arr, k) == Cardinality({ j \in 1..k : ~arr[j].selected })

total == Len(stickers)

CountSelected(arr) == Cardinality({ k \in 1..Len(arr) : arr[k].selected })

\* the collection without its selection flags: order, geometry and blobs
Unflagged(arr) == [k \in 1..Len(arr) |-> [bounds |-> arr[k].bounds, blob |-> arr[k].blob]]

\* C11: after every step selectedCount is the number of regions with
\* selected = true and total is the collection length; selectAll makes
\* selectedCount = total, deselectAll makes selectedCount = 0, and neither
\* changes total, the order of the collection or any geometry.
C11_SelectionCounts ==
  [][/\ selectedCount' = CountSelected(stickers')
     /\ total' = Len(stickers')
     /\ lastOp'.op = "selectAll" =>
          /\ selectedCount' = total'
          /\ total' = total
          /\ Unflagged(stickers') = Unflagged(stickers)
     /\ lastOp'.op = "deselectAll" =>
          /\ selectedCount' = 0
          /\ total' = total
          /\ Unflagged(stickers') = Unflagged(stickers)
  ]_vars

\* selectAll has just acted on a collection of three regions left by a
\* deletion
C11_Witness ==
  /\ lastOp.op = "selectAll"
  /\ run.pc = "done" /\ Len(run.items) = 4
  /\ total = 3 /\ selectedCount = 3

(***************************************************************************)
(* Properties of the displayed ordering.                                   *)
(***************************************************************************)
\* position in the collection of an item of the displayed ordering
PositionOf(item) == CHOOSE k \in 1..Len(stickers) : stickers[k].blob = item.blob

SortedView(mode) ==
  LET shown == sortStickers(stickers, mode) IN
  /\ Len(shown) = Len(stickers)
  /\ \A k \in 1..Len(stickers) :
       Cardinality({ i \in 1..Len(shown) : shown[i] = stickers[k] }) = 1
  /\ mode = "default" => shown = stickers
  /\ \A i \in 1..Len(shown) : \A j \in (i + 1)..Len(shown) :
       /\ mode = "size-desc" =>
            shown[i].bounds.w * shown[i].bounds.h >= shown[j].bounds.w * shown[j].bounds.h
       /\ mode = "size-asc" =>
            shown[i].bounds.w * shown[i].bounds.h <= shown[j].bounds.w * shown[j].bounds.h
       /\ shown[i].bounds.w * shown[i].bounds.h = shown[j].bounds.w * shown[j].bounds.h =>
            PositionOf(shown[i]) < PositionOf(shown[j])

\* C12: in every sort mode the displayed ordering is a permutation of the
\* collection: the collection order under default, non-increasing w*h under
\* size-desc, non-decreasing under size-asc, equal areas in collection order;
\* changing the sort mode leaves the collection as it is, so default shows
\* the creation order again.
C12_SortedView ==
  /\ [](\A m \in {"default", "size-desc", "size-asc"} : SortedView(m))
  /\ [][lastOp'.op = "cycleSort" => stickers' = stickers]_vars

\* size-desc has just been chosen for four regions of areas 1, 2, 2, 1
C12_Witness ==
  /\ lastOp.op = "cycleSort" /\ sortMode = "size-desc"
  /\ Len(stickers) = 4
  /\ Area(stickers[1]) < Area(stickers[2])
  /\ Area(stickers[2]) = Area(stickers[3])
  /\ Area(stickers[4]) < Area(stickers[3])
  /\ displayStickers # stickers

(***************************************************************************)
(* Properties of a run inside the application.                             *)
(***************************************************************************)
RunInFlight == run.pc \in {"delay", "cut"}

\* the step that ended a run without a region: the return of line 144, or
\* the end of a run on an image of zero width or height
EndedEmpty == lastOp.op \in {"notFound", "scanFailed"}

\* C13: when a run ends and no component survived the filter (no opaque
\* pixel, every component too small, or a raster of zero width or height),
\* the collection is empty, the status is the 'not found' signal, which
\* differs from the done(n) of a run with n >= 1 regions, and the process
\* action is enabled again.
C13_EmptyResult ==
  /\ EndedEmpty =>
       /\ stickers = <<>>
       /\ status = StNotFound
       /\ ~processing
  /\ lastOp.op = "cutLast" =>
       /\ Len(stickers) >= 1
       /\ status = StDone(Len(stickers))
       /\ status # StNotFound

RunConfig(r) == <<r.img, r.threshold, r.minSize, r.padding>>

\* the boxes a scan of img at threshold t finds, filtered by ms per
\* dimension and shaped with padding p
RegionsOf(img, t, ms, p) ==
  LET sc == ScanLoop(BeginScan(NewRun(img, t, ms, p)))
      kept == SelectSeq(sc.allBounds, LAMBDA b : b.w >= ms /\ b.h >= ms)
  IN [k \in 1..Len(kept) |-> Shape(kept[k], p, img.width, img.height)]

\* C14: a run works with the threshold, minDimension and padding in effect
\* when it was started: it takes them at its start, no step taken while it
\* is in flight changes them, and the regions it delivers are those of that
\* one configuration, whatever the controls show by then.
C14_ConfigAtStart ==
  [][/\ lastOp'.op = "processImage" =>
          RunConfig(run') = <<originalImage, threshold, minSize, padding>>
     /\ RunInFlight => RunConfig(run') = RunConfig(run)
     /\ lastOp'.op = "cutLast" =>
          BoundsSeq(stickers') =
            RegionsOf(run.img, run.threshold, run.minSize, run.padding)
  ]_vars

\* a run has delivered four regions after all three controls were changed
\* while it was in flight
C14_Witness ==
  /\ lastOp.op = "cutLast"
  /\ Len(stickers) = 4
  /\ threshold # run.threshold
  /\ minSize # run.minSize
  /\ padding # run.padding


\* C15: whenever no run is in flight, every region of the collection was
\* extracted from the atlas that is loaded now; a run that ends after
\* clearAll or after another atlas was loaded adds no region of the atlas it
\* was started on.
C15_RegionsOfLoadedAtlas ==
  ~RunInFlight =>
    \A k \in 1..Len(stickers) : stickers[k].blob.src = originalImage.id

\* C16: `processing` is true exactly while a run is in flight, from the
\* start of processImage until the run has finished, and a finished run
\* leaves the process action enabled for the loaded atlas.
C16_ProcessingWhileInFlight ==
  /\ processing <=> RunInFlight
  /\ (~RunInFlight /\ ~originalImage.null) => ENABLED ProcessImage

====
